---- MODULE Spec2Model ----
(***************************************************************************)
(* Auditly: tenant-scoped user management behind a bearer-token            *)
(* authentication gate, a role gate and an advisory cache-header layer.    *)
(*                                                                         *)
(*   users   the User table, in the store's natural (insertion) order      *)
(*   nextId  the next fresh user id the store hands out                    *)
(*   call    the last direct call of a service method or of a middleware:  *)
(*           its arguments, the state before it and what it returned       *)
(*   req     the request being handled: its inputs, its position in the    *)
(*           route's middleware chain, req.user and the response so far    *)
(*   log     the warnings logger.warn wrote while handling req             *)
(*   env     ENV.NODE_ENV                                                  *)
(*   inflight  the requests handled concurrently, one per connection: each *)
(*           with its own request object, the identities its role gate and *)
(*           handler read, and the warnings logged for it                  *)
(***************************************************************************)
EXTENDS Integers, Sequences, FiniteSets, TLC

VARIABLES users, nextId, call, req, log, env, inflight

vars == <<users, nextId, call, req, log, env, inflight>>

\* ---------------------------------------------------------------- bounds
MaxId == 5
MaxSlots == 2

\* ------------------------------------------------------------ data model
Companies == {"A", "B"}
Roles == {"OWNER", "ADMIN", "USER"}
None == "none"

Min(a, b) == IF a < b THEN a ELSE b

\* A row of the User table.
UserRow(id, name, email, role, companyId) ==
  [id |-> id, name |-> name, email |-> email, password |-> "hash",
   role |-> role, companyId |-> companyId, createdAt |-> id, updatedAt |-> id]

\* Company A has OWNER o1 (id 1) and USER u1 (id 2); company B has OWNER o2
\* (id 3).  Company A's ADMIN a1 (id 4) has been deleted; the access token
\* a1 obtained before that still verifies.
SeedUsers ==
  << UserRow(1, "o1", "o1@a.com", "OWNER", "A"),
     UserRow(2, "u1", "u1@a.com", "USER", "A"),
     UserRow(3, "o2", "o2@b.com", "OWNER", "B") >>
SeedCount == Len(SeedUsers) + 1

Ids == 1..MaxId

\* ----------------------------------------------------------- UserService
\* The `select` clause shared by the reads and by create.
Select(u) ==
  [id |-> u.id, name |-> u.name, email |-> u.email, role |-> u.role,
   createdAt |-> u.createdAt, updatedAt |-> u.updatedAt]

\* A where clause that forgets the tenant.
WhereIdOnly(u, companyId, id) == u.id = id

\* The `where: { id, companyId }` clause.
WhereIdCompany(u, companyId, id) == u.id = id /\ u.companyId = companyId

\* The `where: { companyId }` clause.
WhereCompany(u, companyId) == u.companyId = companyId

\* AppError(message, statusCode) as thrown by the service.
NotFoundError == [status |-> 404, code |-> "unset", message |-> "User not found"]

\* `data` applied to a row: only the provided fields change.
ApplyData(u, data) ==
  [f \in DOMAIN u |-> IF f \in DOMAIN data THEN data[f] ELSE u[f]]

\* A paging that skips page * limit rows.
getAllUsersSkipPage(st, companyId, page, limit) ==
  LET skip == page * limit
      rows == SelectSeq(st, LAMBDA u : u.companyId = companyId)
      taken == SubSeq(rows, skip + 1, Min(Len(rows), skip + limit))
  IN [kind |-> "ok", store |-> st,
      value |-> [i \in 1..Len(taken) |->
                   [id |-> taken[i].id, name |-> taken[i].name,
                    email |-> taken[i].email, role |-> taken[i].role,
                    createdAt |-> taken[i].createdAt,
                    updatedAt |-> taken[i].updatedAt]]]

getAllUsers(st, companyId, page, limit) ==
  LET skip == (page - 1) * limit
      rows == SelectSeq(st, LAMBDA u : WhereCompany(u, companyId))
      taken == SubSeq(rows, skip + 1, Min(Len(rows), skip + limit))
  IN [kind |-> "ok", store |-> st,
      value |-> [i \in 1..Len(taken) |-> Select(taken[i])]]

\* A lookup by id alone that checks the tenant afterwards.
getUserByIdLeaky(st, companyId, id) ==
  LET rows == SelectSeq(st, LAMBDA u : u.id = id)
  IN IF rows = <<>>
       THEN [kind |-> "error", store |-> st,
             error |-> [status |-> 404, code |-> "unset",
                        message |-> "User not found"]]
       ELSE IF rows[1].companyId # companyId
         THEN [kind |-> "error", store |-> st,
               error |-> [status |-> 403, code |-> "unset",
                          message |-> "Forbidden"]]
         ELSE [kind |-> "ok", store |-> st, value |-> Select(rows[1])]

getUserById(st, companyId, id) ==
  LET rows == SelectSeq(st, LAMBDA u : WhereIdCompany(u, companyId, id))
  IN IF rows = <<>>
       THEN [kind |-> "error", store |-> st, error |-> NotFoundError]
       ELSE [kind |-> "ok", store |-> st, value |-> Select(rows[1])]

updateUser(st, companyId, id, data) ==
  LET hit == {i \in 1..Len(st) : WhereIdCompany(st[i], companyId, id)}
  IN [kind |-> "ok",
      store |-> [i \in 1..Len(st) |->
                   IF i \in hit THEN ApplyData(st[i], data) ELSE st[i]],
      value |-> [count |-> Cardinality(hit)]]

\* A delete that does not look at result.count.
deleteUserSilent(st, companyId, id) ==
  [kind |-> "ok",
   store |-> SelectSeq(st, LAMBDA u : ~(u.id = id /\ u.companyId = companyId)),
   value |-> None]

deleteUser(st, companyId, id) ==
  LET kept == SelectSeq(st, LAMBDA u : ~WhereIdCompany(u, companyId, id))
      count == Len(st) - Len(kept)
  IN IF count = 0
       THEN [kind |-> "error", store |-> kept, error |-> NotFoundError]
       ELSE [kind |-> "ok", store |-> kept, value |-> None]

\* The User model's column defaults: a fresh id, USER when no role is given.
DefaultRole == "USER"

\* The unique index on User.email.
EmailTaken(st, email) == \E i \in 1..Len(st) : st[i].email = email

UniqueViolation ==
  [status |-> 500, code |-> "P2002", message |-> "Unique constraint failed"]

\* A create that drops the role it is given.
createUserDropsRole(st, fresh, data) ==
  IF \E i \in 1..Len(st) : st[i].email = data.email
    THEN [kind |-> "error", store |-> st,
          error |-> [status |-> 500, code |-> "P2002",
                     message |-> "Unique constraint failed"]]
    ELSE
  LET row == [id |-> fresh, name |-> data.name, email |-> data.email,
              password |-> data.password, role |-> "USER",
              companyId |-> data.companyId,
              createdAt |-> fresh, updatedAt |-> fresh]
  IN [kind |-> "ok", store |-> Append(st, row),
      value |-> [id |-> row.id, name |-> row.name, email |-> row.email,
                 role |-> row.role, createdAt |-> row.createdAt,
                 updatedAt |-> row.updatedAt]]

createUser(st, fresh, data) ==
  IF EmailTaken(st, data.email)
    THEN [kind |-> "error", store |-> st, error |-> UniqueViolation]
    ELSE
  LET row == [id |-> fresh, name |-> data.name, email |-> data.email,
              password |-> data.password,
              role |-> IF "role" \in DOMAIN data THEN data.role ELSE DefaultRole,
              companyId |-> data.companyId,
              createdAt |-> fresh, updatedAt |-> fresh]
  IN [kind |-> "ok", store |-> Append(st, row), value |-> Select(row)]

\* ------------------------------------------------------------ token codec
\* An optional value is a sequence of length 0 or 1.
Null == <<>>
Some(v) == <<v>>

\* AppError(message, statusCode, code).
AppError(message, status, code) ==
  [message |-> message, status |-> status, code |-> code]

Payload(userId, companyId, role) ==
  [userId |-> userId, companyId |-> companyId, role |-> role,
   iat |-> 1, exp |-> 2]

\* The bearer tokens clients present: what jwt.verify finds in each.
Tokens == {"tO1", "tA1", "tU1", "tO2", "tExpired", "tForged", "garbage"}

TokenTable ==
  [t \in Tokens |->
     CASE t = "tO1" -> [form |-> "jwt", sig |-> "good", expired |-> FALSE,
                        payload |-> Payload(1, "A", "OWNER")]
       [] t = "tU1" -> [form |-> "jwt", sig |-> "good", expired |-> FALSE,
                        payload |-> Payload(2, "A", "USER")]
       [] t = "tO2" -> [form |-> "jwt", sig |-> "good", expired |-> FALSE,
                        payload |-> Payload(3, "B", "OWNER")]
       [] t = "tA1" -> [form |-> "jwt", sig |-> "good", expired |-> FALSE,
                        payload |-> Payload(4, "A", "ADMIN")]
       [] t = "tExpired" -> [form |-> "jwt", sig |-> "good", expired |-> TRUE,
                             payload |-> Payload(1, "A", "OWNER")]
       [] t = "tForged" -> [form |-> "jwt", sig |-> "bad", expired |-> FALSE,
                            payload |-> Payload(1, "A", "OWNER")]
       [] OTHER -> [form |-> "malformed", sig |-> "bad", expired |-> FALSE,
                    payload |-> Payload(0, "A", "USER")]]

\* A verification that skips the expiry check.
JwtVerifyIgnoreExpiry(token) ==
  LET t == TokenTable[token]
  IN CASE t.form # "jwt" -> [ok |-> FALSE, message |-> "jwt malformed"]
       [] t.form = "jwt" /\ t.sig # "good" ->
            [ok |-> FALSE, message |-> "invalid signature"]
       [] OTHER -> [ok |-> TRUE, payload |-> t.payload]

\* jwt.verify(token, ENV.JWT_SECRET): the payload, or a thrown error.
JwtVerify(token) ==
  LET t == TokenTable[token]
  IN CASE t.form # "jwt" -> [ok |-> FALSE, message |-> "jwt malformed"]
       [] t.form = "jwt" /\ t.sig # "good" ->
            [ok |-> FALSE, message |-> "invalid signature"]
       [] t.form = "jwt" /\ t.sig = "good" /\ t.expired ->
            [ok |-> FALSE, message |-> "jwt expired"]
       [] OTHER -> [ok |-> TRUE, payload |-> t.payload]

\* ------------------------------------------------------------- middleware
\* The Authorization header is absent (Null) or the list of its segments
\* between single spaces, i.e. the value of authHeader.split(" ").
StartsWithBearer(h) == Len(h) >= 2 /\ h[1] = "Bearer"

\* authHeader?.startsWith("Bearer ") ? authHeader.split(" ")[1] : null
BearerToken(h) == IF StartsWithBearer(h) THEN Some(h[2]) ELSE Null

\* !token
Falsy(tok) == tok = Null \/ tok[1] = ""

\* What a middleware hands back: the request as it left it, the calls it
\* made to next (each a Null or a Some(error)) and the warnings it logged.
Out(r, nexts, warnings) == [req |-> r, nexts |-> nexts, log |-> warnings]

AuthWarning(message) ==
  [message |-> "Authentication failed",
   context |-> "AuthMiddleware.requireAuth", error |-> message]

InvalidTokenError ==
  AppError("Unauthorized - Invalid or expired token", 401, "INVALID_TOKEN")

\* A catch block that passes the caught error's message on.
AuthCatchRethrow(r, thrown) ==
  Out(r, <<Some(AppError(thrown.message, 401, "INVALID_TOKEN"))>>,
      <<AuthWarning(thrown.message)>>)

\* The catch block of requireAuth.
AuthCatch(r, thrown) == Out(r, <<Some(InvalidTokenError)>>, <<AuthWarning(thrown.message)>>)

\* A requireAuth that attaches the decoded payload as it is.
requireAuthWholePayload(r) ==
  LET token == BearerToken(r.authorization)
  IN IF Falsy(token)
       THEN AuthCatch(r, AppError("No token provided", 401, "UNAUTHORIZED"))
       ELSE LET decoded == JwtVerify(token[1])
            IN IF ~decoded.ok
                 THEN AuthCatch(r, decoded)
                 ELSE Out([r EXCEPT !.user = Some(decoded.payload)],
                          <<Null>>, <<>>)

requireAuth(r) ==
  LET token == BearerToken(r.authorization)
  IN IF Falsy(token)
       THEN AuthCatch(r, AppError("No token provided", 401, "UNAUTHORIZED"))
       ELSE LET decoded == JwtVerify(token[1])
            IN IF ~decoded.ok
                 THEN AuthCatch(r, decoded)
                 ELSE Out([r EXCEPT !.user =
                             Some([userId |-> decoded.payload.userId,
                                   companyId |-> decoded.payload.companyId,
                                   role |-> decoded.payload.role])],
                          <<Null>>, <<>>)

RoleWarning(roles, u) ==
  [message |-> "Insufficient permissions",
   context |-> "AuthMiddleware.requireRole",
   requiredRoles |-> roles, userRole |-> u.role, userId |-> u.userId,
   companyId |-> u.companyId]

\* A role gate in which OWNER stands in for every role.
requireRoleHierarchy(roles, r) ==
  IF r.user = Null
    THEN Out(r, <<Some(AppError("Unauthorized", 401, "UNAUTHORIZED"))>>, <<>>)
    ELSE IF r.user[1].role \notin roles /\ r.user[1].role # "OWNER"
      THEN Out(r, <<Some(AppError("Forbidden - Insufficient permissions",
                                  403, "FORBIDDEN"))>>,
               <<RoleWarning(roles, r.user[1])>>)
      ELSE Out(r, <<Null>>, <<>>)

requireRole(roles, r) ==
  IF r.user = Null
    THEN Out(r, <<Some(AppError("Unauthorized", 401, "UNAUTHORIZED"))>>, <<>>)
    ELSE IF r.user[1].role \notin roles
      THEN Out(r, <<Some(AppError("Forbidden - Insufficient permissions",
                                  403, "FORBIDDEN"))>>,
               <<RoleWarning(roles, r.user[1])>>)
      ELSE Out(r, <<Null>>, <<>>)

\* options.duration ?? 300
DefaultDuration == 300
Duration(options) ==
  IF options.duration = Null THEN DefaultDuration ELSE options.duration[1]

\* A cache middleware without the environment check.
cacheAnyEnv(options, nodeEnv, r) ==
  IF r.method # "GET"
    THEN Out([r EXCEPT !.cacheControl = <<"no-store">>], <<Null>>, <<>>)
    ELSE Out([r EXCEPT !.cacheControl =
                         <<"private", "max-age", Duration(options)>>,
                       !.vary = Some("Authorization")],
             <<Null>>, <<>>)

\* Cache-Control is the list of its directives; Vary is unset (Null) or set.
cache(options, nodeEnv, r) ==
  IF r.method # "GET"
    THEN Out([r EXCEPT !.cacheControl = <<"no-store">>], <<Null>>, <<>>)
    ELSE IF nodeEnv # "production"
      THEN Out([r EXCEPT !.cacheControl = <<"no-store">>], <<Null>>, <<>>)
      ELSE Out([r EXCEPT !.cacheControl =
                           <<"private", "max-age", Duration(options)>>,
                         !.vary = Some("Authorization")],
               <<Null>>, <<>>)

\* ------------------------------------------------------------ the routers
Routes ==
  {"GET /users", "GET /users/:id", "POST /users", "PATCH /users/:id",
   "DELETE /users/:id", "GET /audit", "GET /auth/me", "POST /auth/logout"}

UserRoutes ==
  {"GET /users", "GET /users/:id", "POST /users", "PATCH /users/:id",
   "DELETE /users/:id"}

Method(route) ==
  CASE route \in {"GET /users", "GET /users/:id", "GET /audit", "GET /auth/me"}
         -> "GET"
    [] route \in {"POST /users", "POST /auth/logout"} -> "POST"
    [] route = "PATCH /users/:id" -> "PATCH"
    [] OTHER -> "DELETE"

Mw(name, roles, options) == [mw |-> name, roles |-> roles, options |-> options]
NoOptions == [duration |-> Null]

\* The handlers each route registers; router.use(requireAuth) puts
\* requireAuth in front of every route of the user router.
UseRequireAuth == Mw("requireAuth", {}, NoOptions)

GetUsersChain ==
  << UseRequireAuth,
     Mw("requireRole", {"ADMIN", "OWNER"}, NoOptions),
     Mw("cache", {}, [duration |-> Some(300)]),
     Mw("getAll", {}, NoOptions) >>

GetUserChain ==
  << UseRequireAuth,
     Mw("cache", {}, [duration |-> Some(300)]),
     Mw("getUser", {}, NoOptions) >>

PostUserChain ==
  << UseRequireAuth,
     Mw("requireRole", {"ADMIN", "OWNER"}, NoOptions),
     Mw("validateRequest", {}, NoOptions),
     Mw("create", {}, NoOptions) >>

PatchUserChain ==
  << UseRequireAuth,
     Mw("requireRole", {"ADMIN", "OWNER"}, NoOptions),
     Mw("validateRequest", {}, NoOptions),
     Mw("update", {}, NoOptions) >>

\* A delete route that admits ADMIN as well.
DeleteUserChainAdmin ==
  << Mw("requireAuth", {}, NoOptions),
     Mw("requireRole", {"ADMIN", "OWNER"}, NoOptions),
     Mw("delete", {}, NoOptions) >>

DeleteUserChain ==
  << UseRequireAuth,
     Mw("requireRole", {"OWNER"}, NoOptions),
     Mw("delete", {}, NoOptions) >>

AuditChain ==
  << Mw("requireAuth", {}, NoOptions), Mw("getAuditLogs", {}, NoOptions) >>

MeChain == << Mw("requireAuth", {}, NoOptions), Mw("me", {}, NoOptions) >>

LogoutChain ==
  << Mw("requireAuth", {}, NoOptions), Mw("logout", {}, NoOptions) >>

Chain(route) ==
  CASE route = "GET /users" -> GetUsersChain
    [] route = "GET /users/:id" -> GetUserChain
    [] route = "POST /users" -> PostUserChain
    [] route = "PATCH /users/:id" -> PatchUserChain
    [] route = "DELETE /users/:id" -> DeleteUserChain
    [] route = "GET /audit" -> AuditChain
    [] route = "GET /auth/me" -> MeChain
    [] OTHER -> LogoutChain

\* ------------------------------------------------------------- a request
EmptyBody == [f \in {} |-> ""]

IdleReq ==
  [phase |-> "idle", route |-> "GET /audit", method |-> "GET",
   authorization |-> Null, id |-> 0, body |-> EmptyBody, user |-> Null,
   pos |-> 1, ran |-> <<>>, nexts |-> <<>>, status |-> 0, error |-> Null,
   cacheControl |-> Null, vary |-> Null, value |-> Null]

NewReq(route, authorization, id, body) ==
  [IdleReq EXCEPT !.phase = "run", !.route = route, !.method = Method(route),
                  !.authorization = authorization, !.id = id, !.body = body]

\* The Authorization headers clients send.
AllHeaders ==
  {Null, <<"Basic", "tO1">>, <<"Bearer">>, <<"Bearer", "">>,
   <<"bearer", "tO1">>, <<"Bearer", "", "tO1">>}
    \cup {<<"Bearer", t>> : t \in Tokens}

\* The headers of the requests sent through the routers: none, a scheme
\* other than Bearer, an expired token, and each token that verifies.
Headers ==
  {Null, <<"Basic", "tO1">>, <<"Bearer", "tExpired">>, <<"Bearer", "tO1">>,
   <<"Bearer", "tA1">>, <<"Bearer", "tU1">>, <<"Bearer", "tO2">>}

\* Request bodies: for create, one the schema accepts and one it rejects;
\* for update, one the schema accepts.
CreateBodies ==
  { [name |-> "Bob", email |-> "bob@x.com", password |-> "StrongP@ss1"],
    [name |-> "Bob"] }

UpdateBodies == { [name |-> "New Name"] }

PathIds(route) ==
  IF route \in {"GET /users/:id", "PATCH /users/:id", "DELETE /users/:id"}
    THEN Ids ELSE {0}

Bodies(route) ==
  CASE route = "POST /users" -> CreateBodies
    [] route = "PATCH /users/:id" -> UpdateBodies
    [] OTHER -> {EmptyBody}

\* -------------------------------------------- validation and controllers
ValidRole(body) == "role" \in DOMAIN body => body.role \in {"ADMIN", "USER"}

ValidBody(route, body) ==
  IF route = "POST /users"
    THEN {"name", "email", "password"} \subseteq DOMAIN body /\ ValidRole(body)
    ELSE DOMAIN body \subseteq {"name", "email", "role"} /\ ValidRole(body)

validateRequest(r) ==
  IF ValidBody(r.route, r.body)
    THEN Out(r, <<Null>>, <<>>)
    ELSE Out(r, <<Some(AppError("Validation failed", 400, "VALIDATION_ERROR"))>>,
             <<>>)

ForbiddenError == AppError("Forbidden", 403, "FORBIDDEN")

\* What a controller leaves behind: the service result it obtained (or the
\* error it raised itself) and the status it answers with on success.
Handled(res, status) == [res |-> res, status |-> status]
Refused(st, err) == Handled([kind |-> "error", store |-> st, error |-> err], 0)

\* Rows the caller may address besides its own need ADMIN or OWNER.
OwnOrPrivileged(u, id) == u.userId = id \/ u.role \in {"ADMIN", "OWNER"}

Controller(name, r, st, fresh) ==
  LET u == r.user[1]
  IN CASE name = "getAll" -> Handled(getAllUsers(st, u.companyId, 1, 10), 200)
       [] name = "getUser" ->
            IF OwnOrPrivileged(u, r.id)
              THEN Handled(getUserById(st, u.companyId, r.id), 200)
              ELSE Refused(st, ForbiddenError)
       [] name = "create" ->
            Handled(createUser(st, fresh,
                               [f \in DOMAIN r.body \cup {"companyId"} |->
                                  IF f = "companyId" THEN u.companyId
                                  ELSE r.body[f]]), 201)
       [] name = "update" ->
            IF OwnOrPrivileged(u, r.id)
              THEN Handled(updateUser(st, u.companyId, r.id, r.body), 200)
              ELSE Refused(st, ForbiddenError)
       [] name = "delete" -> Handled(deleteUser(st, u.companyId, r.id), 204)
       [] OTHER -> Handled([kind |-> "ok", store |-> st, value |-> None], 200)

Controllers ==
  {"getAll", "getUser", "create", "update", "delete", "getAuditLogs", "me",
   "logout"}

\* ------------------------------------------------- the request pipeline
\* The connections served concurrently.
Slots == 1..MaxSlots

IdleSlot == [r |-> IdleReq, seen |-> <<>>, log |-> <<>>]

NoInflight == [s \in Slots |-> IdleSlot]

Envs == {"production", "development", "test"}

\* The environment the routers are run in below.
ServerEnvs == {"production"}

NoCall == [op |-> "none"]

Current == Chain(req.route)[req.pos]

\* The error-handling middleware: the error's status and body.
errorHandler(r, err) ==
  [r EXCEPT !.phase = "done", !.status = err.status, !.error = Some(err)]

\* Express moves on after a middleware returned: to the next handler of the
\* chain after next(), to the error handler after next(err).
Moved(name, out) ==
  LET r == [out.req EXCEPT !.ran = Append(@, name), !.nexts = out.nexts]
  IN IF out.nexts[1] = Null
       THEN [r EXCEPT !.pos = @ + 1]
       ELSE errorHandler(r, out.nexts[1][1])

Dispatch(name, out) ==
  /\ req' = Moved(name, out)
  /\ log' = log \o out.log

Receive(route, authorization, id, body) ==
  /\ req.phase \in {"idle", "done"}
  /\ route = "POST /users" => nextId <= MaxId
  /\ req' = NewReq(route, authorization, id, body)
  /\ log' = <<>>
  /\ UNCHANGED <<users, nextId, call, env, inflight>>

StepRequireAuth ==
  /\ req.phase = "run" /\ Current.mw = "requireAuth"
  /\ Dispatch("requireAuth", requireAuth(req))
  /\ UNCHANGED <<users, nextId, call, env, inflight>>

StepRequireRole ==
  /\ req.phase = "run" /\ Current.mw = "requireRole"
  /\ Dispatch("requireRole", requireRole(Current.roles, req))
  /\ UNCHANGED <<users, nextId, call, env, inflight>>

StepValidate ==
  /\ req.phase = "run" /\ Current.mw = "validateRequest"
  /\ Dispatch("validateRequest", validateRequest(req))
  /\ UNCHANGED <<users, nextId, call, env, inflight>>

StepCache ==
  /\ req.phase = "run" /\ Current.mw = "cache"
  /\ Dispatch("cache", cache(Current.options, env, req))
  /\ UNCHANGED <<users, nextId, call, env, inflight>>

\* The response a controller sends: its status and value, or the error it
\* passed on.
Answered(name, r0, h) ==
  LET r == [r0 EXCEPT !.ran = Append(@, name)]
  IN IF h.res.kind = "ok"
       THEN [r EXCEPT !.phase = "done", !.status = h.status,
                      !.value = Some(h.res.value)]
       ELSE errorHandler(r, h.res.error)

StepController ==
  /\ req.phase = "run" /\ Current.mw \in Controllers
  /\ LET h == Controller(Current.mw, req, users, nextId)
     IN /\ users' = h.res.store
        /\ nextId' = IF Len(h.res.store) > Len(users) THEN nextId + 1 ELSE nextId
        /\ req' = Answered(Current.mw, req, h)
  /\ UNCHANGED <<call, log, env, inflight>>

Init ==
  /\ users = SeedUsers
  /\ nextId = SeedCount + 1
  /\ call = NoCall
  /\ inflight = NoInflight
  /\ req = IdleReq
  /\ log = <<>>
  /\ env \in ServerEnvs

Next ==
  \/ \E route \in Routes, h \in Headers :
       \E id \in PathIds(route), body \in Bodies(route) :
         Receive(route, h, id, body)
  \/ StepRequireAuth
  \/ StepRequireRole
  \/ StepValidate
  \/ StepCache
  \/ StepController

Spec == Init /\ [][Next]_vars

\* ----------------------------------------- requests handled concurrently
\* Each request has its own request object; the handlers of different
\* requests interleave, one handler at a time.
ConcRoutes == {"GET /users", "DELETE /users/:id"}

ConcHeaders ==
  {Null, <<"Bearer", "tO1">>, <<"Bearer", "tU1">>, <<"Bearer", "tO2">>}

ConcIds(route) == IF route = "DELETE /users/:id" THEN {2} ELSE {0}

\* A role gate that reads the identity from a variable shared by all
\* requests (here: the one attached for the first connection that has one).
GateInputShared(rs, s) ==
  LET withUser == {t \in DOMAIN rs : rs[t].r.user # Null}
      first == CHOOSE t \in withUser : \A x \in withUser : t <= x
  IN IF withUser = {} THEN rs[s].r
     ELSE [rs[s].r EXCEPT !.user = rs[first].r.user]

\* The request object a handler of connection s is called with.
GateInput(rs, s) == rs[s].r

CurrentOf(s) == Chain(inflight[s].r.route)[inflight[s].r.pos]

ConcReceive(s, route, authorization, id) ==
  /\ inflight[s].r.phase \in {"idle", "done"}
  /\ inflight' = [inflight EXCEPT ![s] =
                    [r |-> NewReq(route, authorization, id, EmptyBody),
                     seen |-> <<>>, log |-> <<>>]]
  /\ UNCHANGED <<users, nextId, call, req, log, env>>

ConcRequireAuth(s) ==
  /\ inflight[s].r.phase = "run" /\ CurrentOf(s).mw = "requireAuth"
  /\ LET out == requireAuth(inflight[s].r)
     IN inflight' = [inflight EXCEPT ![s].r = Moved("requireAuth", out),
                                     ![s].log = @ \o out.log]
  /\ UNCHANGED <<users, nextId, call, req, log, env>>

ConcRequireRole(s) ==
  /\ inflight[s].r.phase = "run" /\ CurrentOf(s).mw = "requireRole"
  /\ LET in == GateInput(inflight, s)
         out == requireRole(CurrentOf(s).roles, in)
     IN inflight' = [inflight EXCEPT ![s].r = Moved("requireRole", out),
                                     ![s].seen = Append(@, in.user),
                                     ![s].log = @ \o out.log]
  /\ UNCHANGED <<users, nextId, call, req, log, env>>

ConcCache(s) ==
  /\ inflight[s].r.phase = "run" /\ CurrentOf(s).mw = "cache"
  /\ LET out == cache(CurrentOf(s).options, env, inflight[s].r)
     IN inflight' = [inflight EXCEPT ![s].r = Moved("cache", out),
                                     ![s].log = @ \o out.log]
  /\ UNCHANGED <<users, nextId, call, req, log, env>>

ConcController(s) ==
  /\ inflight[s].r.phase = "run" /\ CurrentOf(s).mw \in Controllers
  /\ LET in == GateInput(inflight, s)
         h == Controller(CurrentOf(s).mw, in, users, nextId)
     IN /\ users' = h.res.store
        /\ nextId' = IF Len(h.res.store) > Len(users) THEN nextId + 1 ELSE nextId
        /\ inflight' = [inflight EXCEPT
                          ![s].r = Answered(CurrentOf(s).mw, in, h),
                          ![s].seen = Append(@, in.user)]
  /\ UNCHANGED <<call, req, log, env>>

ConcInit ==
  /\ users = SeedUsers
  /\ nextId = SeedCount + 1
  /\ call = NoCall
  /\ inflight = NoInflight
  /\ req = IdleReq
  /\ log = <<>>
  /\ env = "production"

ConcNext ==
  \E s \in Slots :
    \/ \E route \in ConcRoutes, h \in ConcHeaders :
         \E id \in ConcIds(route) : ConcReceive(s, route, h, id)
    \/ ConcRequireAuth(s)
    \/ ConcRequireRole(s)
    \/ ConcCache(s)
    \/ ConcController(s)

ConcSpec == ConcInit /\ [][ConcNext]_vars

\* ------------------------------------------ UserService, called directly
Pages == 1..2
Limits == {1, 2, 10}

ServiceData ==
  { [name |-> "Bob", email |-> "bob@x.com", password |-> "StrongP@ss1",
     companyId |-> c] : c \in Companies }
  \cup
  { [name |-> "Bob", email |-> "bob@x.com", password |-> "StrongP@ss1",
     role |-> "ADMIN", companyId |-> c] : c \in Companies }

ServiceUpdates == { [name |-> "New Name"], [role |-> "USER"], EmptyBody }

Called(op, companyId, id, data, res) ==
  /\ call' = [op |-> op, companyId |-> companyId, id |-> id, data |-> data,
              pre |-> users, res |-> res]
  /\ users' = res.store
  /\ nextId' = IF Len(res.store) > Len(users) THEN nextId + 1 ELSE nextId
  /\ UNCHANGED <<req, log, env, inflight>>

CallGetAllUsers(companyId, page, limit) ==
  Called("getAllUsers", companyId, 0, [page |-> page, limit |-> limit],
         getAllUsers(users, companyId, page, limit))

CallGetUserById(companyId, id) ==
  Called("getUserById", companyId, id, EmptyBody, getUserById(users, companyId, id))

CallUpdateUser(companyId, id, data) ==
  Called("updateUser", companyId, id, data, updateUser(users, companyId, id, data))

CallDeleteUser(companyId, id) ==
  Called("deleteUser", companyId, id, EmptyBody, deleteUser(users, companyId, id))

CallCreateUser(data) ==
  /\ nextId <= MaxId
  /\ Called("createUser", data.companyId, nextId, data,
            createUser(users, nextId, data))

SvcInit ==
  /\ users = SeedUsers
  /\ nextId = SeedCount + 1
  /\ call = NoCall
  /\ inflight = NoInflight
  /\ req = IdleReq
  /\ log = <<>>
  /\ env = "test"

SvcNext ==
  \/ \E c \in Companies, page \in Pages, limit \in Limits :
       CallGetAllUsers(c, page, limit)
  \/ \E c \in Companies, id \in Ids : CallGetUserById(c, id)
  \/ \E c \in Companies, id \in Ids, data \in ServiceUpdates :
       CallUpdateUser(c, id, data)
  \/ \E c \in Companies, id \in Ids : CallDeleteUser(c, id)
  \/ \E data \in ServiceData : CallCreateUser(data)

SvcSpec == SvcInit /\ [][SvcNext]_vars

\* ------------------------------------------- middleware, applied directly
Methods == {"GET", "POST", "PATCH", "DELETE", "PUT", "HEAD"}

Identities ==
  { [userId |-> i, companyId |-> c, role |-> ro] :
      i \in {1, 2}, c \in Companies, ro \in Roles }

CacheOptions ==
  { [duration |-> Null], [duration |-> Some(0)], [duration |-> Some(60)],
    [duration |-> Some(300)] }

Applied(op, roles, options, out) ==
  /\ call.op = "none"
  /\ call' = [op |-> op, roles |-> roles, options |-> options, pre |-> req,
              out |-> out]
  /\ req' = [out.req EXCEPT !.ran = Append(@, op), !.nexts = out.nexts]
  /\ log' = log \o out.log
  /\ UNCHANGED <<users, nextId, env, inflight>>

ApplyRequireAuth ==
  /\ req.user = Null
  /\ Applied("requireAuth", {}, NoOptions, requireAuth(req))

ApplyRequireRole(roles) ==
  Applied("requireRole", roles, NoOptions, requireRole(roles, req))

ApplyCache(options) == Applied("cache", {}, options, cache(options, env, req))

MwInit ==
  /\ users = SeedUsers
  /\ nextId = SeedCount + 1
  /\ call = NoCall
  /\ inflight = NoInflight
  /\ \E m \in Methods, h \in AllHeaders, u \in {Null} \cup {Some(i) : i \in Identities} :
       req = [IdleReq EXCEPT !.phase = "run", !.method = m,
                             !.authorization = h, !.user = u]
  /\ log = <<>>
  /\ env \in Envs

MwNext ==
  \/ ApplyRequireAuth
  \/ \E roles \in SUBSET Roles : ApplyRequireRole(roles)
  \/ \E options \in CacheOptions : ApplyCache(options)

MwSpec == MwInit /\ [][MwNext]_vars

\* ------------------------------------------ getAllUsers over larger tables
MaxRows == 20

Mailbox ==
  << "m01@x.com", "m02@x.com", "m03@x.com", "m04@x.com", "m05@x.com",
     "m06@x.com", "m07@x.com", "m08@x.com", "m09@x.com", "m10@x.com",
     "m11@x.com", "m12@x.com", "m13@x.com", "m14@x.com", "m15@x.com",
     "m16@x.com", "m17@x.com", "m18@x.com", "m19@x.com", "m20@x.com",
     "m21@x.com", "m22@x.com", "m23@x.com", "m24@x.com" >>

\* A table of n users in which every fourth row belongs to company B and the
\* others to company A.
PagedUsers(n) ==
  [i \in 1..n |->
     UserRow(i, "user", Mailbox[i], "USER", IF i % 4 = 0 THEN "B" ELSE "A")]

PageInit ==
  /\ \E n \in 0..MaxRows : users = PagedUsers(n) /\ nextId = n + 1
  /\ call = NoCall
  /\ inflight = NoInflight
  /\ req = IdleReq
  /\ log = <<>>
  /\ env = "test"

PageNext ==
  \E c \in Companies, page \in Pages, limit \in Limits :
    CallGetAllUsers(c, page, limit)

PageSpec == PageInit /\ [][PageNext]_vars

\* ===================================================== claims C1 .. C10
\* A token that verifies: well-formed, signed with the secret, not expired.
Verifies(t) ==
  /\ t \in Tokens
  /\ TokenTable[t].form = "jwt"
  /\ TokenTable[t].sig = "good"
  /\ ~TokenTable[t].expired

\* The header is "Bearer <token>" with a token that verifies.
ValidBearer(h) == h # Null /\ Len(h) >= 2 /\ h[1] = "Bearer" /\ Verifies(h[2])

\* The identity a request's token carries.
TokenIdentity(h) ==
  LET p == TokenTable[h[2]].payload
  IN [userId |-> p.userId, companyId |-> p.companyId, role |-> p.role]

RowIds(st) == {st[i].id : i \in 1..Len(st)}
Rows(st) == {st[i] : i \in 1..Len(st)}

\* One step, seen from a request that carries no valid bearer token.
C1_Step ==
  (req'.phase # "idle" /\ ~ValidBearer(req'.authorization)) =>
    /\ users' = users
    /\ req'.ran \in {<<>>, <<"requireAuth">>}
    /\ req'.ran = <<"requireAuth">> =>
         /\ req'.phase = "done"
         /\ req'.status = 401
         /\ req'.user = Null
         /\ req'.value = Null

\* C1: a request to a protected route without a valid bearer token is ended
\* by requireAuth with a 401; nothing after requireAuth runs for it and the
\* user store is left as it was.
C1_NoTokenNoAccess == [][C1_Step]_vars

C1_Witness ==
  /\ req.phase = "done"
  /\ req.route = "DELETE /users/:id"
  /\ req.authorization = <<"Bearer", "tExpired">>
  /\ req.status = 401
  /\ req.ran = <<"requireAuth">>

\* C2: a UserService call made for one company returns only that company's
\* users and leaves every user of any other company as it was.
C2_TenantIsolation ==
  call.op \in {"getAllUsers", "getUserById", "updateUser", "deleteUser"} =>
    /\ \A u \in Rows(call.pre) :
         u.companyId # call.companyId => u \in Rows(users)
    /\ (call.op = "getAllUsers") =>
         \A i \in 1..Len(call.res.value) :
           \E u \in Rows(call.pre) :
             u.id = call.res.value[i].id /\ u.companyId = call.companyId
    /\ (call.op = "getUserById" /\ call.res.kind = "ok") =>
         \E u \in Rows(call.pre) :
           u.id = call.res.value.id /\ u.companyId = call.companyId

C2_Witness ==
  /\ call.op = "updateUser"
  /\ call.data = [name |-> "New Name"]
  /\ \E u \in Rows(call.pre) : u.id = call.id /\ u.companyId # call.companyId
  /\ call.res.value.count = 0

\* C3 (as claimed): a USER may PATCH its own record (200) and is refused
\* (403) for any other id.
C3_SelfUpdateAllowed ==
  ( /\ req.phase = "done"
    /\ req.route = "PATCH /users/:id"
    /\ ValidBearer(req.authorization)
    /\ TokenIdentity(req.authorization).role = "USER"
    /\ ValidBody(req.route, req.body) ) =>
      IF req.id = TokenIdentity(req.authorization).userId
        THEN req.status = 200
        ELSE req.status = 403

\* C4 (as claimed): updateUser for an id that has no row under the company
\* fails with NotFound and leaves the store unchanged.
C4_UpdateMissingIsNotFound ==
  ( /\ call.op = "updateUser"
    /\ ~\E u \in Rows(call.pre) :
          u.id = call.id /\ u.companyId = call.companyId ) =>
      /\ users = call.pre
      /\ call.res.kind = "error"
      /\ call.res.error.status = 404

\* C5: deleteUser for an id with no row under the company changes nothing and
\* fails with NotFound (404); otherwise it removes that row and no other, so
\* deleting the same (companyId, id) again reports NotFound.
C5_DeleteUser ==
  call.op = "deleteUser" =>
    LET hit == {u \in Rows(call.pre) :
                  u.id = call.id /\ u.companyId = call.companyId}
        again == deleteUser(users, call.companyId, call.id)
    IN /\ hit = {} =>
            /\ users = call.pre
            /\ call.res.kind = "error"
            /\ call.res.error.status = 404
       /\ hit # {} =>
            /\ call.res.kind = "ok"
            /\ Rows(users) = Rows(call.pre) \ hit
            /\ Len(users) = Len(call.pre) - 1
       /\ again.kind = "error" /\ again.error.status = 404
       /\ again.store = users

C5_Witness ==
  /\ call.op = "deleteUser"
  /\ call.res.kind = "error"
  /\ call.id \in RowIds(SeedUsers)
  /\ call.id \notin RowIds(call.pre)
  /\ \E u \in Rows(SeedUsers) : u.id = call.id /\ u.companyId = call.companyId

\* C6: getUserById fails with NotFound (404) when the company has no user of
\* that id, and answers an id held by another company exactly as it answers an
\* id held by nobody.
C6_GetUserNoLeak ==
  /\ (call.op = "getUserById" /\
      ~\E u \in Rows(call.pre) :
          u.id = call.id /\ u.companyId = call.companyId) =>
        /\ call.res.kind = "error"
        /\ call.res.error.status = 404
  /\ \A c \in Companies, elsewhere \in Ids, nowhere \in Ids :
       ( /\ \E u \in Rows(users) : u.id = elsewhere /\ u.companyId # c
         /\ ~\E u \in Rows(users) : u.id = elsewhere /\ u.companyId = c
         /\ nowhere \notin RowIds(users) ) =>
           /\ getUserById(users, c, elsewhere) = getUserById(users, c, nowhere)
           /\ getUserById(users, c, elsewhere).kind = "error"
           /\ getUserById(users, c, elsewhere).error.status = 404

C6_Witness ==
  /\ call.op = "getUserById"
  /\ call.res.kind = "error"
  /\ \E u \in Rows(call.pre) : u.id = call.id /\ u.companyId # call.companyId
  /\ \E nowhere \in Ids : nowhere \notin RowIds(users)

\* C7: requireRole passes the request on exactly when the identity's role is
\* in the allowed set, answers 403 when it is not, and 401 when the request
\* has no identity; no role stands in for another.
C7_RoleMembership ==
  call.op = "requireRole" =>
    /\ Len(call.out.nexts) = 1
    /\ call.out.req = call.pre
    /\ call.pre.user = Null =>
         /\ call.out.nexts[1] # Null
         /\ call.out.nexts[1][1].status = 401
    /\ call.pre.user # Null =>
         /\ (call.out.nexts[1] = Null) <=> (call.pre.user[1].role \in call.roles)
         /\ call.pre.user[1].role \notin call.roles =>
              /\ call.out.nexts[1] # Null
              /\ call.out.nexts[1][1].status = 403

C7_Witness ==
  /\ call.op = "requireRole"
  /\ call.roles = {"ADMIN"}
  /\ call.pre.user # Null
  /\ call.pre.user[1].role = "OWNER"
  /\ call.out.nexts[1] # Null
  /\ call.out.nexts[1][1].status = 403

\* The roles the policy table allows on each role-gated route.
GatedRoutes ==
  {"GET /users", "POST /users", "PATCH /users/:id", "DELETE /users/:id"}

PolicyRoles(route) ==
  IF route = "DELETE /users/:id" THEN {"OWNER"} ELSE {"ADMIN", "OWNER"}

Ran(name, r) == \E i \in 1..Len(r.ran) : r.ran[i] = name

\* One step of the user router, checked against the policy table.
C8_Step ==
  /\ RowIds(users) \ RowIds(users') # {} =>
       /\ req.route = "DELETE /users/:id"
       /\ req.method = "DELETE"
       /\ ValidBearer(req.authorization)
       /\ TokenIdentity(req.authorization).role = "OWNER"
       /\ req.user = Some(TokenIdentity(req.authorization))
  /\ (Ran("getAll", req') \/ Ran("create", req')) =>
       /\ ValidBearer(req'.authorization)
       /\ TokenIdentity(req'.authorization).role \in {"ADMIN", "OWNER"}
  /\ ( /\ req'.phase # "idle"
       /\ req'.route \in GatedRoutes
       /\ ValidBearer(req'.authorization)
       /\ TokenIdentity(req'.authorization).role \notin PolicyRoles(req'.route) ) =>
         /\ users' = users
         /\ req'.ran \in {<<>>, <<"requireAuth">>, <<"requireAuth", "requireRole">>}
         /\ req'.cacheControl = Null
         /\ req'.ran = <<"requireAuth", "requireRole">> =>
              req'.phase = "done" /\ req'.status = 403

\* C8: over any sequence of requests, a user leaves the store only through a
\* DELETE /users/{id} of a verified OWNER; list and create run only for a
\* verified ADMIN or OWNER; a request the role gate denies is answered 403
\* and reaches neither validation, the cache layer nor the controller.
C8_RoleGatedMutations == [][C8_Step]_vars

C8_Witness ==
  /\ req.phase = "done"
  /\ req.route = "DELETE /users/:id"
  /\ req.status = 204
  /\ req.user # Null
  /\ req.user[1].role = "OWNER"
  /\ req.id \notin RowIds(users)
  /\ req.id \in RowIds(SeedUsers)

\* C9: the cache middleware sets no-store and no Vary for every non-GET
\* request and for every request outside production, and
\* private, max-age=<duration> (300 by default) with Vary: Authorization for
\* a GET in production; it calls next once, without an error, and never
\* emits a public or shared directive.
C9_CacheHeaders ==
  call.op = "cache" =>
    LET out == call.out.req
        duration == IF call.options.duration = Null
                      THEN 300 ELSE call.options.duration[1]
    IN /\ call.out.nexts = <<Null>>
       /\ out = [call.pre EXCEPT !.cacheControl = out.cacheControl,
                                 !.vary = out.vary]
       /\ (call.pre.method # "GET" \/ env # "production") =>
            out.cacheControl = <<"no-store">> /\ out.vary = Null
       /\ (call.pre.method = "GET" /\ env = "production") =>
            /\ out.cacheControl = <<"private", "max-age", duration>>
            /\ out.vary = Some("Authorization")
       /\ out.cacheControl[1] \in {"no-store", "private"}

C9_Witness ==
  /\ call.op = "cache"
  /\ call.pre.method = "GET"
  /\ env = "production"
  /\ call.options.duration = Null
  /\ req.cacheControl = <<"private", "max-age", 300>>
  /\ req.vary = Some("Authorization")

\* Why a request fails authentication: no header, a header that is not
\* "Bearer <token>", or a token that is malformed, mis-signed or expired.
FailureCause(h) ==
  CASE h = Null -> "missing"
    [] h # Null /\ ~(Len(h) >= 2 /\ h[1] = "Bearer" /\ h[2] # "") -> "not bearer"
    [] OTHER ->
         IF TokenTable[h[2]].form # "jwt" THEN "malformed"
         ELSE IF TokenTable[h[2]].sig # "good" THEN "mis-signed"
         ELSE IF TokenTable[h[2]].expired THEN "expired"
         ELSE "none"

\* C10: every authentication failure reaches the caller as the same error
\* (401, one code, one message) whatever its cause; the cause is written to
\* the warning log only, and the warning does not contain the token.
C10_UniformAuthFailure ==
  (call.op = "requireAuth" /\ FailureCause(call.pre.authorization) # "none") =>
    /\ call.out.nexts =
         << Some([message |-> "Unauthorized - Invalid or expired token",
                  status |-> 401, code |-> "INVALID_TOKEN"]) >>
    /\ call.out.req = call.pre
    /\ Len(log) = 1
    /\ log[1].error =
         CASE FailureCause(call.pre.authorization) \in {"missing", "not bearer"}
                -> "No token provided"
           [] FailureCause(call.pre.authorization) = "malformed" -> "jwt malformed"
           [] FailureCause(call.pre.authorization) = "mis-signed"
                -> "invalid signature"
           [] OTHER -> "jwt expired"
    /\ \A i \in 1..Len(call.pre.authorization) :
         /\ log[1].error # call.pre.authorization[i]
         /\ log[1].message # call.pre.authorization[i]
         /\ log[1].context # call.pre.authorization[i]
    /\ DOMAIN log[1] = {"message", "context", "error"}

C10_Witness ==
  /\ call.op = "requireAuth"
  /\ call.pre.authorization = <<"Bearer", "tForged">>
  /\ call.out.nexts[1] # Null
  /\ call.out.nexts[1][1].status = 401
  /\ log[1].error = "invalid signature"

\* The rows of a company, in the order the table holds them.
CompanyRows(st, c) == SelectSeq(st, LAMBDA u : u.companyId = c)

Max(a, b) == IF a > b THEN a ELSE b

\* C11: for a company of n users, page >= 1 and limit >= 1, getAllUsers
\* returns min(limit, max(0, n - (page-1)*limit)) users: the company's users
\* at positions (page-1)*limit+1 .. page*limit of the table's order, each with
\* id, name, email, role, createdAt and updatedAt only, never the password.
C11_Pagination ==
  call.op = "getAllUsers" =>
    LET rows == CompanyRows(call.pre, call.companyId)
        n == Len(rows)
        page == call.data.page
        limit == call.data.limit
        got == call.res.value
    IN /\ page >= 1 /\ limit >= 1
       /\ call.res.kind = "ok"
       /\ users = call.pre
       /\ Len(got) = Min(limit, Max(0, n - (page - 1) * limit))
       /\ \A k \in 1..Len(got) :
            LET u == rows[(page - 1) * limit + k]
            IN /\ DOMAIN got[k] =
                    {"id", "name", "email", "role", "createdAt", "updatedAt"}
               /\ got[k].id = u.id
               /\ got[k].name = u.name
               /\ got[k].email = u.email
               /\ got[k].role = u.role
               /\ got[k].createdAt = u.createdAt
               /\ got[k].updatedAt = u.updatedAt
               /\ u.companyId = call.companyId

\* page 2 of 10 over a company of 15 users: users 11 to 15.
C11_Witness ==
  /\ call.op = "getAllUsers"
  /\ call.data = [page |-> 2, limit |-> 10]
  /\ Len(CompanyRows(call.pre, call.companyId)) = 15
  /\ Len(call.res.value) = 5
  /\ call.res.value[1].id = CompanyRows(call.pre, call.companyId)[11].id
  /\ call.res.value[5].id = CompanyRows(call.pre, call.companyId)[15].id

\* C12: createUser without a role persists a user of role USER and returns
\* the record without the password, showing role USER; with a role it
\* persists that role.  The new user belongs to the companyId passed in and
\* no existing user is changed.
C12_CreateUser ==
  ( /\ call.op = "createUser"
    /\ ~\E u \in Rows(call.pre) : u.email = call.data.email ) =>
      LET role == IF "role" \in DOMAIN call.data THEN call.data.role ELSE "USER"
          new == users[Len(users)]
      IN /\ call.res.kind = "ok"
         /\ Len(users) = Len(call.pre) + 1
         /\ \A i \in 1..Len(call.pre) : users[i] = call.pre[i]
         /\ new.id \notin RowIds(call.pre)
         /\ new.role = role
         /\ new.companyId = call.data.companyId
         /\ new.name = call.data.name
         /\ new.email = call.data.email
         /\ new.password = call.data.password
         /\ DOMAIN call.res.value =
              {"id", "name", "email", "role", "createdAt", "updatedAt"}
         /\ call.res.value.id = new.id
         /\ call.res.value.role = role
         /\ call.res.value.name = new.name
         /\ call.res.value.email = new.email

C12_Witness ==
  /\ call.op = "createUser"
  /\ "role" \notin DOMAIN call.data
  /\ call.data.companyId = "B"
  /\ call.res.kind = "ok"
  /\ call.res.value.role = "USER"
  /\ users[Len(users)].companyId = "B"
  /\ Len(users) = Len(call.pre) + 1

\* C14: requireAuth calls next exactly once, with no argument or with an
\* error; it attaches req.user exactly when it calls next with no argument.
\* On failure req.user stays unset; on success req.user holds the userId,
\* companyId and role of the verified token and no other payload field.
C14_AuthFrame ==
  call.op = "requireAuth" =>
    LET h == call.pre.authorization
        out == call.out.req
    IN /\ Len(call.out.nexts) = 1
       /\ call.out.nexts[1] = Null \/ Len(call.out.nexts[1]) = 1
       /\ (call.out.nexts[1] = Null) <=> (out.user # Null)
       /\ (call.out.nexts[1] = Null) <=> ValidBearer(h)
       /\ out = [call.pre EXCEPT !.user = out.user]
       /\ out.user # Null =>
            /\ DOMAIN out.user[1] = {"userId", "companyId", "role"}
            /\ out.user[1].userId = TokenTable[h[2]].payload.userId
            /\ out.user[1].companyId = TokenTable[h[2]].payload.companyId
            /\ out.user[1].role = TokenTable[h[2]].payload.role
       /\ req.user = out.user

C14_Witness ==
  /\ call.op = "requireAuth"
  /\ call.pre.authorization = <<"Bearer", "tU1">>
  /\ call.pre.user = Null
  /\ call.out.nexts = <<Null>>
  /\ req.user = Some([userId |-> 2, companyId |-> "A", role |-> "USER"])

\* One step of the concurrent service, seen from every connection: what its
\* role gate and handler read, and what the step touched.
C13_Step ==
  /\ Cardinality({s \in Slots : inflight'[s] # inflight[s]}) <= 1
  /\ \A s \in Slots :
       LET q == inflight'[s]
       IN /\ q.r.user # Null =>
               /\ ValidBearer(q.r.authorization)
               /\ q.r.user = Some(TokenIdentity(q.r.authorization))
          /\ \A i \in 1..Len(q.seen) :
               /\ ValidBearer(q.r.authorization)
               /\ q.seen[i] = Some(TokenIdentity(q.r.authorization))
          /\ (q.r.phase = "run" /\ q.r.pos = 1) =>
               q.r.user = Null /\ q.seen = <<>>

\* C13: under any interleaving of concurrently handled requests, the identity
\* each request's role gate and handler see is the one decoded from that
\* request's own token; a step of one request leaves the identity context of
\* every other request alone, and a new request starts without one.
C13_RequestScopedIdentity == [][C13_Step]_vars

C13_Witness ==
  /\ inflight[1].r.phase = "run"
  /\ inflight[2].r.phase = "run"
  /\ inflight[1].seen # <<>>
  /\ inflight[2].seen # <<>>
  /\ inflight[1].r.user # inflight[2].r.user
  /\ inflight[1].r.user[1].companyId # inflight[2].r.user[1].companyId

====
